---------------------------- MODULE Spec2Model ----------------------------
(***************************************************************************)
(* Attendance tracking and pay-cut calculation of time-task-nexus.         *)
(*                                                                         *)
(* Units.  Instants are whole seconds on the UTC time line (the code has   *)
(* millisecond instants; every instant drawn here is a whole second).      *)
(* Calendar dates are day numbers, day 0 beginning at instant 0 in UTC.    *)
(* Money is in cents (profiles.hourly_rate is DECIMAL(8,2), every amount   *)
(* the code persists is rounded to 2 decimals).  An unrounded amount is a  *)
(* fraction num/den of a cent.  daily_working_hours (DECIMAL(4,2)) is in   *)
(* hundredths of an hour, total_hours in hundredths of an hour.            *)
(*                                                                         *)
(* JavaScript computes the amounts in IEEE doubles.  The hourly rates      *)
(* drawn below are multiples of 10.00 (10.00, 30.00, 60.00, -10.00): for   *)
(* them every unrounded amount is a whole number of thirds of a cent,      *)
(* never an exact half cent, so Math.round of the double and the exact     *)
(* rounding of this module agree for every minute count.  The calculations *)
(* are also priced at 35.00, where an odd number of minutes beyond 60      *)
(* gives an exact half cent: for up to 72 late and 72 early minutes the    *)
(* doubles of handleCheckIn, handleCheckOut and calculateHoursAndPayCut    *)
(* round each of these half cents up, as the exact rounding does.          *)
(***************************************************************************)
EXTENDS Integers, FiniteSets, Sequences, TLC

\* SQL NULL / JavaScript null of a numeric or timestamp value: a number that
\* no column and no instant of the model takes
NULL == 0 - 1000000000

\* NULL of a uuid column
NoUser == "null"

\* `null` where a row is expected (todayAttendance before the first check-in)
NoRow == [id |-> 0]

DaySecs == 24 * 3600

\* hh:mm:ss as seconds of the day
HMS(h, m, s) == h * 3600 + m * 60 + s

(***************************************************************************)
(* Bounds of the model.                                                    *)
(***************************************************************************)
\* largest late / early-departure minute count drawn for the calculations
MaxMinutes == 70

\* writes of one behaviour that are not bounded by the pages themselves:
\* inserted rows, admin dialog submits, deletions and profile updates
MaxWrites == 2

\* overtime requests submitted at most
MaxRequests == 2

(***************************************************************************)
(* Program constants.                                                      *)
(***************************************************************************)
workStartHour == 9

\* minutes charged at the base rate; later minutes are charged at 1.5x
LeniencyMinutes == 60

\* the admin dialog's fixed end of the working day
adminWorkEndHour == 17

\* `settings?.daily_working_hours || 8`, in hundredths of an hour
defaultDailyHours == 800

(***************************************************************************)
(* JavaScript and SQL primitives.                                          *)
(***************************************************************************)
\* a number | null used as a condition
Truthy(v) == v # NULL /\ v # 0

\* `v || d`
OrElse(v, d) == IF Truthy(v) THEN v ELSE d

Abs(n) == IF n < 0 THEN -n ELSE n

Max(a, b) == IF a >= b THEN a ELSE b

\* Math.round(num / den), den > 0: the nearest integer, a half rounds up
MathRound(num, den) == (2 * num + den) \div (2 * den)

\* Number((num / den).toFixed(0)), den > 0: nearest, a half rounds away from 0
ToFixed(num, den) ==
  LET m == (2 * Abs(num) + den) \div (2 * den)
  IN  IF num < 0 THEN -m ELSE m


(***************************************************************************)
(* State.                                                                  *)
(***************************************************************************)
VARIABLES
  tz,                 \* the browsers' offset from UTC in minutes (east positive)
  clock,              \* the latest instant any client has read from new Date()
  attendance,         \* table public.attendance: the set of the employee's rows
  hourly_rate,        \* profiles.hourly_rate of the employee: cents or NULL
  daily_working_hours,\* company_settings.daily_working_hours, in hundredths
  todayAttendance,    \* AttendanceTracker state: a row or NULL
  toast,              \* title of the toast the employee's page showed last
  selectedDate,       \* TeamAttendance state: the local date the admin views
  attendanceRecords,  \* TeamAttendance state: the rows fetched for selectedDate
  writes,             \* writes counted against MaxWrites so far
  calc,               \* inputs and results of the calculations (SpecCalc)
  overtime_requests,  \* table public.overtime_requests: the rows in insertion order
  otherTab,           \* todayAttendance of the employee's second browser tab
  network,            \* what a write request of the employee's page meets
  actionLoading,      \* AttendanceTracker state: a check-in/out is in flight
  requests,           \* OvertimeApproval state: the list each admin has loaded
  authState,          \* useAuth state: user, session, loading, profile
  authSession,        \* the supabase client's session: its user id or NoUser
  authPending         \* useAuth callbacks not yet run: getSession().then,
                      \* setTimeout timers, profile requests awaiting their response

vars == <<tz, clock, attendance, hourly_rate, daily_working_hours,
          todayAttendance, toast, selectedDate, attendanceRecords, writes,
          calc, overtime_requests, otherTab, network,
                     actionLoading, requests, authState, authSession,
                     authPending>>

sysVars == <<tz, clock, attendance, hourly_rate, daily_working_hours,
             todayAttendance, toast, selectedDate, attendanceRecords, writes,
             overtime_requests, otherTab, network,
                     actionLoading, requests, authState, authSession,
                     authPending>>

(***************************************************************************)
(* Dates of an instant.                                                    *)
(***************************************************************************)
\* d.toISOString().split('T')[0]: the UTC calendar date of instant t
isoDate(t) == t \div DaySecs

\* format(d, 'yyyy-MM-dd'): the local calendar date of instant t
formatDate(t) == (t + tz * 60) \div DaySecs

\* the instant of local wall-clock second s of local date d
localInstant(d, s) == d * DaySecs + s - tz * 60

\* d.setHours(h, 0, 0, 0) for an hour count given in hundredths: the local
\* date of t at hour h, the fraction of h dropped (ToIntegerOrInfinity)
setHours(t, h100) == localInstant(formatDate(t), (h100 \div 100) * 3600)

\* new Date('yyyy-MM-dd'): a date-only string parses as UTC midnight
parseDateOnly(d) == d * DaySecs

\* a timestamp string without zone, `${date}T${hh:mm}:00`, stored into a
\* timestamptz column by a session whose time zone is UTC
storeLocalString(d, s) == d * DaySecs + s

(***************************************************************************)
(* Lateness and early departure.                                           *)
(***************************************************************************)
\* lateness with a grace period: the first 15 minutes after work start are
\* not late
lateMinutesWithGrace(checkIn, todayWorkStart) ==
  IF checkIn > todayWorkStart + 15 * 60
  THEN MathRound(checkIn - todayWorkStart, 60)
  ELSE 0

\* lateness counted in started minutes (Math.ceil in place of Math.round)
lateMinutesCeil(checkIn, todayWorkStart) ==
  IF checkIn > todayWorkStart
  THEN (checkIn - todayWorkStart + 59) \div 60
  ELSE 0

\* AttendanceTracker.handleCheckIn and calculateHoursAndPayCut: minutes
\* from work start to check-in, both instants in seconds
lateMinutes(checkIn, todayWorkStart) ==
  IF checkIn > todayWorkStart
  THEN MathRound(checkIn - todayWorkStart, 60)
  ELSE 0

\* handleCheckOut and calculateHoursAndPayCut: minutes from check-out to
\* work end
earlyDepartureMinutes(checkOut, todayWorkEnd) ==
  IF checkOut < todayWorkEnd
  THEN MathRound(todayWorkEnd - checkOut, 60)
  ELSE 0

(***************************************************************************)
(* Pay cuts, in cents.                                                     *)
(***************************************************************************)
\* a check-in pay cut without the 1.5x tier: every late minute at the base
\* rate
checkInPayCutFlat(late, rate) ==
  IF late > 0 /\ Truthy(rate) THEN MathRound(late * rate, 60) ELSE 0

\* handleCheckIn: the pay cut for lateness alone
checkInPayCut(late, rate) ==
  IF late > 0 /\ Truthy(rate)
  THEN IF late <= LeniencyMinutes
       THEN MathRound(late * rate, 60)
       ELSE MathRound(120 * rate + 3 * (late - LeniencyMinutes) * rate, 120)
  ELSE 0

\* a check-out that ignores the late minutes already charged: the early
\* minutes get a 60-minute bucket of their own
totalPayCutOwnBucket(late_minutes, pay_cut_amount, early, rate) ==
  LET prior == OrElse(pay_cut_amount, 0)
  IN  IF early > 0 /\ Truthy(rate)
      THEN IF early <= LeniencyMinutes
           THEN MathRound(60 * prior + early * rate, 60)
           ELSE MathRound(120 * prior + 120 * rate
                            + 3 * (early - LeniencyMinutes) * rate, 120)
      ELSE prior

\* a check-out that prices the early minutes alone and drops the pay cut
\* charged at check-in
totalPayCutDiscarding(late_minutes, pay_cut_amount, early, rate) ==
  LET remainingFromLate == Max(0, LeniencyMinutes - OrElse(late_minutes, 0))
  IN  IF early > 0 /\ Truthy(rate)
      THEN IF early <= remainingFromLate
           THEN MathRound(early * rate, 60)
           ELSE MathRound(2 * remainingFromLate * rate
                            + 3 * (early - remainingFromLate) * rate, 120)
      ELSE 0

\* handleCheckOut: the early-departure charge added to the pay cut and the
\* late minutes the client holds in todayAttendance
totalPayCut(late_minutes, pay_cut_amount, early, rate) ==
  LET prior == OrElse(pay_cut_amount, 0)
      remainingFromLate == Max(0, LeniencyMinutes - OrElse(late_minutes, 0))
  IN  IF early > 0 /\ Truthy(rate)
      THEN IF early <= remainingFromLate
           THEN MathRound(60 * prior + early * rate, 60)
           ELSE MathRound(120 * prior + 2 * remainingFromLate * rate
                            + 3 * (early - remainingFromLate) * rate, 120)
      ELSE prior

\* a single-pass pay cut with one 60-minute bucket per category instead of
\* one shared bucket
adminPayCutPerCategory(late, early, hourlyRate) ==
  LET base  == (IF late <= LeniencyMinutes THEN late ELSE LeniencyMinutes)
             + (IF early <= LeniencyMinutes THEN early ELSE LeniencyMinutes)
      extra == (late + early) - base
  IN  IF Truthy(hourlyRate) /\ late + early > 0
      THEN MathRound(2 * base * hourlyRate + 3 * extra * hourlyRate, 120)
      ELSE 0

\* calculateHoursAndPayCut: the single-pass pay cut of the admin dialog
adminPayCut(late, early, hourlyRate) ==
  LET totalViolationMinutes == late + early
  IN  IF Truthy(hourlyRate) /\ totalViolationMinutes > 0
      THEN IF totalViolationMinutes <= LeniencyMinutes
           THEN MathRound(totalViolationMinutes * hourlyRate, 60)
           ELSE MathRound(120 * hourlyRate
                  + 3 * (totalViolationMinutes - LeniencyMinutes) * hourlyRate, 120)
      ELSE 0

\* ROUND(x, 2) of the numeric x = m * (p_hourly_rate / 60), m = num/2 minutes.
\* The quotient p_hourly_rate / 60 is a numeric rounded at its 16th or 20th
\* decimal; its error moves x only across an exact half cent, where x then
\* rounds away from zero unless the quotient was rounded towards zero.
sqlRound(num, rate) ==
  LET u     == num * Abs(rate)            \* |x| in 1/120 cent
      whole == u \div 120
      part  == u % 120
      rest  == (40 * Abs(rate)) % 60      \* remainder of the quotient's last digit
      down  == rest > 0 /\ rest < 30      \* the quotient was rounded towards zero
      m     == IF part > 60 \/ (part = 60 /\ ~down) THEN whole + 1 ELSE whole
  IN  IF rate < 0 THEN -m ELSE m

\* public.calculate_pay_cut(p_late_minutes, p_early_departure_minutes,
\* p_hourly_rate)
calculate_pay_cut(p_late_minutes, p_early_departure_minutes, p_hourly_rate) ==
  LET total_minutes == (IF p_late_minutes = NULL THEN 0 ELSE p_late_minutes)
                     + (IF p_early_departure_minutes = NULL THEN 0
                        ELSE p_early_departure_minutes)
      first_period_minutes  == IF total_minutes <= 60 THEN total_minutes ELSE 60
      second_period_minutes == IF total_minutes <= 60 THEN 0 ELSE total_minutes - 60
  IN  IF p_hourly_rate = NULL \/ p_hourly_rate = 0
      THEN 0
      ELSE sqlRound(2 * first_period_minutes + 3 * second_period_minutes,
                    p_hourly_rate)

\* calculateHoursAndPayCut with the hours clamped at 0 when the check-out
\* precedes the check-in
calculateHoursClamped(checkIn, checkOut, hourlyRate) ==
  LET late  == lateMinutes(checkIn, workStartHour * 3600)
      early == IF checkOut # NULL
               THEN earlyDepartureMinutes(checkOut, adminWorkEndHour * 3600)
               ELSE 0
  IN  [ isLate                |-> late > 0,
        lateMinutes           |-> late,
        totalHours            |-> IF checkOut # NULL
                                  THEN Max(0, ToFixed(checkOut - checkIn, 36))
                                  ELSE NULL,
        earlyDepartureMinutes |-> early,
        payCut                |-> adminPayCut(late, early, hourlyRate) ]

(***************************************************************************)
(* AdminAttendanceDialog.calculateHoursAndPayCut(checkIn, checkOut,        *)
(* hourlyRate): checkIn and checkOut are the form's hh:mm as seconds of    *)
(* the day (checkOut NULL when the field is empty).  checkInDate,          *)
(* checkOutDate, todayWorkStart and todayWorkEnd are all local times of    *)
(* the dialog's date, so their differences are those of the wall clock.    *)
(***************************************************************************)
calculateHoursAndPayCut(checkIn, checkOut, hourlyRate) ==
  LET late  == lateMinutes(checkIn, workStartHour * 3600)
      early == IF checkOut # NULL
               THEN earlyDepartureMinutes(checkOut, adminWorkEndHour * 3600)
               ELSE 0
  IN  [ isLate                |-> late > 0,
        lateMinutes           |-> late,
        totalHours            |-> IF checkOut # NULL
                                  THEN ToFixed(checkOut - checkIn, 36)
                                  ELSE NULL,
        earlyDepartureMinutes |-> early,
        payCut                |-> adminPayCut(late, early, hourlyRate) ]


(***************************************************************************)
(* Inputs.                                                                 *)
(***************************************************************************)
\* browser time zones: UTC-8, UTC, UTC+3
TzOffsets == {0 - 480, 0, 180}

\* wall-clock times of local day 0 at which a client reads new Date()
ClockTimes == { HMS(1, 0, 0), HMS(9, 0, 0), HMS(9, 1, 0), HMS(16, 59, 0),
                HMS(17, 0, 0) }

\* the instants of ClockTimes that the clock has not passed
Nows == { t \in { localInstant(0, s) : s \in ClockTimes } : t >= clock }

\* hh:mm values typed into the admin dialog's time fields
AdminCheckIns  == { HMS(9, 0, 0), HMS(10, 30, 0) }
AdminCheckOuts == { NULL, HMS(16, 59, 0) }

\* hourly rates a profile can hold: unset, 0, 10.00 and -10.00
\* (UserForm stores parseFloat of any text; the column has no CHECK)
Rates == { NULL, 0, 1000, 0 - 1000 }

adminUid == "admin"

\* `null` where a profile is expected
NoProfile == [user_id |-> NoUser]

\* useAuth's useState initial value
SignedOutState ==
  [user |-> NoUser, session |-> NoUser, loading |-> TRUE, profile |-> NoProfile]

\* the admins who decide on overtime requests
Admins == { adminUid, "admin2" }

(***************************************************************************)
(* The attendance table.                                                   *)
(***************************************************************************)
\* a table without UNIQUE(user_id, date): no row stands in an insert's way
rowsOnUnconstrained(d) == { r \in attendance : FALSE }

\* rows with the given date: UNIQUE(user_id, date) for the one employee
rowsOn(d) == { r \in attendance : r.date = d }

rowsWithId(id) == { r \in attendance : r.id = id }

\* .maybeSingle() / .single() of a result of at most one row
theRow(rows) == IF rows = {} THEN NoRow ELSE CHOOSE r \in rows : TRUE

\* gen_random_uuid(): an id that no row and no client state holds.  Ids are
\* numbered from 1 and an id is given out again once nothing refers to it.
newId ==
  LET held == { r.id : r \in attendance } \cup { r.id : r \in attendanceRecords }
                \cup { todayAttendance.id, otherTab.id }
  IN  CHOOSE i \in 1 .. (Cardinality(held) + 1) :
        i \notin held /\ \A j \in 1 .. (i - 1) : j \in held

(***************************************************************************)
(* AttendanceTracker (the employee's page).                                *)
(***************************************************************************)
\* the button the page renders: Check In while todayAttendance has no
\* check_in_time, else Check Out while it has no check_out_time; either is
\* disabled while actionLoading
showCheckIn ==
  IF todayAttendance = NoRow THEN TRUE
  ELSE todayAttendance.check_in_time = NULL

showCheckOut ==
  IF todayAttendance = NoRow THEN FALSE
  ELSE /\ todayAttendance.check_in_time # NULL
       /\ todayAttendance.check_out_time = NULL

\* fetchTodayAttendance, run when the page loads: a request that returns
\* an error toasts and sets todayAttendance to the null data, one that
\* throws toasts and sets nothing
fetchTodayAttendance(now) ==
  LET today == isoDate(now)
  IN  /\ clock' = now
      /\ IF network = "up"
         THEN /\ todayAttendance' = theRow(rowsOn(today))
              /\ UNCHANGED toast
         ELSE /\ todayAttendance' = IF network = "error" THEN NoRow
                                    ELSE todayAttendance
              /\ toast' = "Error"
      /\ UNCHANGED <<tz, attendance, hourly_rate, daily_working_hours,
                     selectedDate, attendanceRecords, writes, calc,
                     overtime_requests, otherTab, network, actionLoading, requests, authState, authSession,
                     authPending>>

\* the row handleCheckIn inserts; columns it does not name take their defaults
checkInRow(now, id) ==
  LET todayWorkStart == setHours(now, workStartHour * 100)
      late           == lateMinutes(now, todayWorkStart)
  IN  [ id                      |-> id,
        date                    |-> isoDate(now),
        check_in_time           |-> now,
        check_out_time          |-> NULL,
        total_hours             |-> NULL,
        status                  |-> "present",
        is_late                 |-> late > 0,
        late_minutes            |-> late,
        early_departure_minutes |-> 0,
        pay_cut_amount          |-> checkInPayCut(late, hourly_rate),
        pay_cut_approved        |-> FALSE,
        pay_cut_approved_by     |-> NoUser,
        pay_cut_approved_at     |-> NULL ]

\* a failed attempt whose failure leaves the page waiting: the handler
\* without its finally block
attemptFailedStillLoading(title) ==
  /\ toast' = title
  /\ actionLoading' = TRUE
  /\ UNCHANGED <<attendance, todayAttendance, writes>>

\* the `if (error)` branch and the catch block of handleCheckIn and
\* handleCheckOut, followed by finally: a destructive toast with the given
\* title, todayAttendance not set, actionLoading reset
attemptFailed(title) ==
  /\ toast' = title
  /\ actionLoading' = FALSE
  /\ UNCHANGED <<attendance, todayAttendance, writes>>

\* handleCheckIn, the Check In button's handler.  The insert returns an
\* error when the request fails (network "error") or the row violates
\* UNIQUE(user_id, date); the request throws when network is "throws".
handleCheckIn(now) ==
  LET row == checkInRow(now, newId)
  IN  /\ showCheckIn
      /\ ~actionLoading
      /\ clock' = now
      /\ IF network # "up" \/ rowsOn(row.date) # {}
         THEN attemptFailed("Check-in Failed")
         ELSE /\ writes < MaxWrites
              /\ writes' = writes + 1
              /\ attendance' = attendance \cup {row}
              /\ todayAttendance' = row
              /\ toast' = "Success"
              /\ actionLoading' = FALSE
      /\ UNCHANGED <<tz, hourly_rate, daily_working_hours, selectedDate,
                     attendanceRecords, calc, overtime_requests, otherTab,
                     network, requests, authState, authSession,
                     authPending>>

\* the columns handleCheckOut writes, computed from the client's
\* todayAttendance and the hourly rate read from the profile
checkOutUpdate(now) ==
  LET dailyHours  == OrElse(daily_working_hours, defaultDailyHours)
      workEndHour == workStartHour * 100 + dailyHours
      todayWorkEnd == setHours(now, workEndHour)
      early       == earlyDepartureMinutes(now, todayWorkEnd)
  IN  [ check_out_time          |-> now,
        total_hours             |-> ToFixed(now - todayAttendance.check_in_time, 36),
        early_departure_minutes |-> early,
        pay_cut_amount          |-> totalPayCut(todayAttendance.late_minutes,
                                                todayAttendance.pay_cut_amount,
                                                early, hourly_rate) ]

\* handleCheckOut, the Check Out button's handler: the update is
\* `.eq('id', todayAttendance.id)`, and .single() returns an error when it
\* finds no row
handleCheckOut(now) ==
  LET u      == checkOutUpdate(now)
      target == rowsWithId(todayAttendance.id)
      new    == [ theRow(target) EXCEPT
                    !.check_out_time          = u.check_out_time,
                    !.total_hours             = u.total_hours,
                    !.early_departure_minutes = u.early_departure_minutes,
                    !.pay_cut_amount          = u.pay_cut_amount ]
  IN  /\ showCheckOut
      /\ ~actionLoading
      /\ clock' = now
      /\ IF network # "up" \/ target = {}
         THEN attemptFailed("Check-out Failed")
         ELSE /\ attendance' = (attendance \ target) \cup {new}
              /\ todayAttendance' = new
              /\ toast' = "Success"
              /\ actionLoading' = FALSE
              /\ UNCHANGED writes
      /\ UNCHANGED <<tz, hourly_rate, daily_working_hours, selectedDate,
                     attendanceRecords, calc, overtime_requests, otherTab,
                     network, requests, authState, authSession,
                     authPending>>

\* the employee turns to the other browser tab: each tab is an
\* AttendanceTracker with a todayAttendance of its own
switchTab ==
  /\ todayAttendance' = otherTab
  /\ otherTab' = todayAttendance
  /\ UNCHANGED <<tz, clock, attendance, hourly_rate, daily_working_hours,
                 toast, selectedDate, attendanceRecords, writes, calc,
                 overtime_requests, network, actionLoading, requests, authState, authSession,
                     authPending>>

\* the connection of the employee's browser changes: the next requests
\* succeed ("up"), return an error or throw
setNetwork(n) ==
  /\ n # network
  /\ network' = n
  /\ UNCHANGED <<tz, clock, attendance, hourly_rate, daily_working_hours,
                 todayAttendance, toast, selectedDate, attendanceRecords,
                 writes, calc, overtime_requests, otherTab, actionLoading, requests, authState, authSession,
                     authPending>>

(***************************************************************************)
(* TeamAttendance and AdminAttendanceDialog (the admin's page).            *)
(***************************************************************************)
\* calendar dates the admin can pick
Dates == { 0 }

\* fetchTeamAttendance over the table t for the selected local date d: of
\* each fetched row, the columns the admin's handlers read
teamRows(t, d) ==
  { [ id               |-> r.id,
      date             |-> r.date,
      pay_cut_amount   |-> r.pay_cut_amount,
      pay_cut_approved |-> r.pay_cut_approved ] : r \in { x \in t : x.date = d } }

\* the page mounts (selectedDate = new Date(), local date 0) or the admin
\* picks a date; the effect on selectedDate runs fetchTeamAttendance
setSelectedDate(d) ==
  /\ selectedDate' = d
  /\ attendanceRecords' = teamRows(attendance, d)
  /\ UNCHANGED <<tz, clock, attendance, hourly_rate, daily_working_hours,
                 todayAttendance, toast, writes, calc,
                     overtime_requests, otherTab, network,
                     actionLoading, requests, authState, authSession,
                     authPending>>

\* an attendanceData that marks the pay cut approved
attendanceDataApproved(d, checkIn, checkOut) ==
  LET calculations ==
        calculateHoursAndPayCut(checkIn, checkOut, OrElse(hourly_rate, NULL))
  IN  [ date                    |-> d,
        check_in_time           |-> storeLocalString(d, checkIn),
        check_out_time          |-> IF checkOut # NULL
                                    THEN storeLocalString(d, checkOut)
                                    ELSE NULL,
        status                  |-> "present",
        is_late                 |-> calculations.isLate,
        late_minutes            |-> calculations.lateMinutes,
        total_hours             |-> calculations.totalHours,
        early_departure_minutes |-> calculations.earlyDepartureMinutes,
        pay_cut_amount          |-> calculations.payCut,
        pay_cut_approved        |-> TRUE ]

\* handleSubmit's attendanceData for the dialog's local date d
attendanceData(d, checkIn, checkOut) ==
  LET calculations ==
        calculateHoursAndPayCut(checkIn, checkOut, OrElse(hourly_rate, NULL))
  IN  [ date                    |-> d,
        check_in_time           |-> storeLocalString(d, checkIn),
        check_out_time          |-> IF checkOut # NULL
                                    THEN storeLocalString(d, checkOut)
                                    ELSE NULL,
        status                  |-> "present",
        is_late                 |-> calculations.isLate,
        late_minutes            |-> calculations.lateMinutes,
        total_hours             |-> calculations.totalHours,
        early_departure_minutes |-> calculations.earlyDepartureMinutes,
        pay_cut_amount          |-> calculations.payCut,
        pay_cut_approved        |-> FALSE ]

\* handleSubmit with attendanceRecord = rec (edit mode): the dialog's date is
\* new Date(rec.date), written back as format(date, 'yyyy-MM-dd')
handleSubmitEdit(rec, checkIn, checkOut) ==
  LET d      == formatDate(parseDateOnly(rec.date))
      data   == attendanceData(d, checkIn, checkOut)
      target == rowsWithId(rec.id)
      old    == theRow(target)
      new    == [ id                      |-> old.id,
                  date                    |-> data.date,
                  check_in_time           |-> data.check_in_time,
                  check_out_time          |-> data.check_out_time,
                  total_hours             |-> data.total_hours,
                  status                  |-> data.status,
                  is_late                 |-> data.is_late,
                  late_minutes            |-> data.late_minutes,
                  early_departure_minutes |-> data.early_departure_minutes,
                  pay_cut_amount          |-> data.pay_cut_amount,
                  pay_cut_approved        |-> data.pay_cut_approved,
                  pay_cut_approved_by     |-> old.pay_cut_approved_by,
                  pay_cut_approved_at     |-> old.pay_cut_approved_at ]
      after  == IF target = {} THEN attendance
                ELSE (attendance \ target) \cup {new}
  IN  /\ rec \in attendanceRecords
      /\ writes < MaxWrites
      /\ writes' = writes + 1
      /\ IF target # {} /\ \E r \in attendance : r.date = d /\ r.id # rec.id
         THEN \* duplicate key value violates UNIQUE(user_id, date)
              UNCHANGED <<attendance, attendanceRecords>>
         ELSE /\ attendance' = after
              /\ attendanceRecords' = teamRows(after, selectedDate)
      /\ UNCHANGED <<tz, clock, hourly_rate, daily_working_hours,
                     todayAttendance, toast, selectedDate, calc,
                     overtime_requests, otherTab, network,
                     actionLoading, requests, authState, authSession,
                     authPending>>

\* handleSubmit without attendanceRecord (add mode): the dialog's date is
\* selectedDate
handleSubmitAdd(checkIn, checkOut) ==
  LET d    == selectedDate
      data == attendanceData(d, checkIn, checkOut)
      new  == [ id                      |-> newId,
                date                    |-> data.date,
                check_in_time           |-> data.check_in_time,
                check_out_time          |-> data.check_out_time,
                total_hours             |-> data.total_hours,
                status                  |-> data.status,
                is_late                 |-> data.is_late,
                late_minutes            |-> data.late_minutes,
                early_departure_minutes |-> data.early_departure_minutes,
                pay_cut_amount          |-> data.pay_cut_amount,
                pay_cut_approved        |-> data.pay_cut_approved,
                pay_cut_approved_by     |-> NoUser,
                pay_cut_approved_at     |-> NULL ]
  IN  /\ writes < MaxWrites
      /\ writes' = writes + 1
      /\ IF rowsOn(d) # {}
         THEN UNCHANGED <<attendance, attendanceRecords>>
         ELSE /\ attendance' = attendance \cup {new}
              /\ attendanceRecords' = teamRows(attendance \cup {new}, selectedDate)
      /\ UNCHANGED <<tz, clock, hourly_rate, daily_working_hours,
                     todayAttendance, toast, selectedDate, calc,
                     overtime_requests, otherTab, network,
                     actionLoading, requests, authState, authSession,
                     authPending>>

\* handleApprovePayCut(rec.id): the Approve Cut button is shown for a listed
\* row with a positive, unapproved pay cut; the admin's new Date() reads the
\* instant the clock has reached
handleApprovePayCut(rec) ==
  LET target == rowsWithId(rec.id)
      new    == [ theRow(target) EXCEPT
                    !.pay_cut_approved    = TRUE,
                    !.pay_cut_approved_by = adminUid,
                    !.pay_cut_approved_at = clock ]
      after  == IF target = {} THEN attendance
                ELSE (attendance \ target) \cup {new}
  IN  /\ rec \in attendanceRecords
      /\ Truthy(rec.pay_cut_amount)
      /\ rec.pay_cut_amount > 0
      /\ ~rec.pay_cut_approved
      /\ attendance' = after
      /\ attendanceRecords' = teamRows(after, selectedDate)
      /\ UNCHANGED <<tz, clock, hourly_rate, daily_working_hours,
                     todayAttendance, toast, selectedDate, writes, calc,
                     overtime_requests, otherTab, network,
                     actionLoading, requests, authState, authSession,
                     authPending>>

\* handleDeleteAttendance(rec.id)
handleDeleteAttendance(rec) ==
  LET after == attendance \ rowsWithId(rec.id)
  IN  /\ rec \in attendanceRecords
      /\ writes < MaxWrites
      /\ writes' = writes + 1
      /\ attendance' = after
      /\ attendanceRecords' = teamRows(after, selectedDate)
      /\ UNCHANGED <<tz, clock, hourly_rate, daily_working_hours,
                     todayAttendance, toast, selectedDate, calc,
                     overtime_requests, otherTab, network,
                     actionLoading, requests, authState, authSession,
                     authPending>>

\* UserForm.onSubmit editing the employee: hourly_rate is parseFloat of the
\* field, or null when the field is empty
userFormSubmit(rate) ==
  /\ rate # hourly_rate
  /\ writes < MaxWrites
  /\ writes' = writes + 1
  /\ hourly_rate' = rate
  /\ UNCHANGED <<tz, clock, attendance, daily_working_hours, todayAttendance,
                 toast, selectedDate, attendanceRecords, calc,
                     overtime_requests, otherTab, network,
                     actionLoading, requests, authState, authSession,
                     authPending>>

(***************************************************************************)
(* Settings (the admin's Work Hours card).                                 *)
(***************************************************************************)
\* End Time values saved with the Start Time left at 09:00: 16:00, 17:00, 17:30
SettingsEnds == { HMS(16, 0, 0), HMS(17, 0, 0), HMS(17, 30, 0) }

\* handleSaveSettings("Work Hours") with workingHours = {start, end} as
\* seconds of the day: dailyHours = (endMinutes - startMinutes) / 60, stored
\* into DECIMAL(4,2)
handleSaveSettings(start, end) ==
  LET startMinutes == start \div 60
      endMinutes   == end \div 60
      dailyHours   == ToFixed(100 * (endMinutes - startMinutes), 60)
  IN  /\ dailyHours # daily_working_hours
      /\ writes < MaxWrites
      /\ writes' = writes + 1
      /\ daily_working_hours' = dailyHours
      /\ UNCHANGED <<tz, clock, attendance, hourly_rate, todayAttendance, toast,
                     selectedDate, attendanceRecords, calc,
                     overtime_requests, otherTab, network,
                     actionLoading, requests, authState, authSession,
                     authPending>>

(***************************************************************************)
(* The system.                                                             *)
(***************************************************************************)
CalcOff == [stage |-> "off"]

Init ==
  /\ tz \in TzOffsets
  /\ clock = localInstant(0, 0)
  /\ attendance = {}
  /\ hourly_rate \in Rates
  /\ daily_working_hours = defaultDailyHours
  /\ todayAttendance = NoRow
  /\ toast = "none"
  /\ selectedDate = 0
  /\ attendanceRecords = {}
  /\ writes = 0
  /\ overtime_requests = <<>>
  /\ otherTab = NoRow
  /\ network = "up"
  /\ actionLoading = FALSE
  /\ requests = [a \in Admins |-> <<>>]
  /\ authState = SignedOutState
  /\ authSession = NoUser
  /\ authPending = {}
  /\ calc = CalcOff

Next ==
  \/ \E now \in Nows : fetchTodayAttendance(now)
  \/ \E now \in Nows : handleCheckIn(now)
  \/ \E now \in Nows : handleCheckOut(now)
  \/ \E d \in Dates : setSelectedDate(d)
  \/ \E rec \in attendanceRecords, i \in AdminCheckIns, o \in AdminCheckOuts :
       handleSubmitEdit(rec, i, o)
  \/ \E i \in AdminCheckIns, o \in AdminCheckOuts : handleSubmitAdd(i, o)
  \/ \E rec \in attendanceRecords : handleApprovePayCut(rec)
  \/ \E rec \in attendanceRecords : handleDeleteAttendance(rec)
  \/ \E rate \in Rates : userFormSubmit(rate)
  \/ \E end \in SettingsEnds : handleSaveSettings(workStartHour * 3600, end)

Spec == Init /\ [][Next]_vars

(***************************************************************************)
(* One working day of the employee's page and the admin's dialog, at the   *)
(* times of the documented scenario (09:15, 16:50) and with check-out      *)
(* times that precede the check-in.  The hourly rate and the work hours    *)
(* stay as the day began.                                                  *)
(***************************************************************************)
\* wall-clock times of local day 0 at which the employee clicks
DayTimes == { HMS(8, 45, 0), HMS(9, 0, 20), HMS(9, 15, 0), HMS(10, 30, 0),
              HMS(16, 50, 0), HMS(17, 0, 0) }

DayNows == { t \in { localInstant(0, s) : s \in DayTimes } : t >= clock }

\* hh:mm values typed into the admin dialog
DayCheckIns  == { HMS(9, 15, 0), HMS(17, 0, 0) }
DayCheckOuts == { NULL, HMS(9, 0, 0), HMS(16, 50, 0) }

\* hourly rates: unset, 0, 30.00 and -10.00
DayRates == { NULL, 0, 3000, 0 - 1000 }

InitDay ==
  /\ tz \in TzOffsets
  /\ clock = localInstant(0, 0)
  /\ attendance = {}
  /\ hourly_rate \in DayRates
  /\ daily_working_hours = defaultDailyHours
  /\ todayAttendance = NoRow
  /\ toast = "none"
  /\ selectedDate = 0
  /\ attendanceRecords = {}
  /\ writes = 0
  /\ overtime_requests = <<>>
  /\ otherTab = NoRow
  /\ network = "up"
  /\ actionLoading = FALSE
  /\ requests = [a \in Admins |-> <<>>]
  /\ authState = SignedOutState
  /\ authSession = NoUser
  /\ authPending = {}
  /\ calc = CalcOff

NextDay ==
  \/ \E now \in DayNows : handleCheckIn(now)
  \/ \E now \in DayNows : handleCheckOut(now)
  \/ \E d \in Dates : setSelectedDate(d)
  \/ \E rec \in attendanceRecords, i \in DayCheckIns, o \in DayCheckOuts :
       handleSubmitEdit(rec, i, o)
  \/ \E i \in DayCheckIns, o \in DayCheckOuts : handleSubmitAdd(i, o)

SpecDay == InitDay /\ [][NextDay]_vars

(***************************************************************************)
(* The employee's page open in two browser tabs, on a connection that can  *)
(* fail, while the admin adds records.                                     *)
(***************************************************************************)
\* wall-clock times of local day 0 at which the employee clicks
TabTimes == { HMS(9, 1, 0), HMS(16, 59, 0), HMS(17, 0, 0) }

TabNows == { t \in { localInstant(0, s) : s \in TabTimes } : t >= clock }

Networks == { "up", "error", "throws" }

InitTabs ==
  /\ tz \in TzOffsets
  /\ clock = localInstant(0, 0)
  /\ attendance = {}
  /\ hourly_rate = 1000
  /\ daily_working_hours = defaultDailyHours
  /\ todayAttendance = NoRow
  /\ toast = "none"
  /\ selectedDate = 0
  /\ attendanceRecords = {}
  /\ writes = 0
  /\ overtime_requests = <<>>
  /\ otherTab = NoRow
  /\ network = "up"
  /\ actionLoading = FALSE
  /\ requests = [a \in Admins |-> <<>>]
  /\ authState = SignedOutState
  /\ authSession = NoUser
  /\ authPending = {}
  /\ calc = CalcOff

NextTabs ==
  \/ \E now \in TabNows : fetchTodayAttendance(now)
  \/ \E now \in TabNows : handleCheckIn(now)
  \/ \E now \in TabNows : handleCheckOut(now)
  \/ switchTab
  \/ \E n \in Networks : setNetwork(n)
  \/ \E i \in AdminCheckIns, o \in AdminCheckOuts : handleSubmitAdd(i, o)

SpecTabs == InitTabs /\ [][NextTabs]_vars

(***************************************************************************)
(* OvertimeRequestForm.  The form's date is a local calendar date, its     *)
(* start and end times are hh:mm as seconds of the day, its reason is      *)
(* given by its length.  A row of overtime_requests holds the local date,  *)
(* the two instants and hours in hundredths (column DECIMAL(4,2)); its id  *)
(* is its position in the table.                                           *)
(***************************************************************************)
OvertimeDates == { 0, 1 }
OvertimeTimes == { HMS(17, 0, 0), HMS(17, 10, 0), HMS(18, 30, 0), HMS(20, 0, 0) }
ReasonLengths == { 9, 10 }

\* a schema that accepts an end time equal to the start time
overtimeSchemaNonStrict(startTime, endTime, reason) ==
  /\ reason >= 10
  /\ endTime >= startTime

\* overtimeSchema: reason.min(10) and the refinement end > start, both times
\* read on 2000-01-01
overtimeSchema(startTime, endTime, reason) ==
  /\ reason >= 10
  /\ endTime > startTime

\* calculateHours: diffMs / (1000 * 60 * 60), kept as the numerator in
\* seconds of a fraction over 3600
calculateHours(startTime, endTime) == endTime - startTime

\* a number of hours secs/3600 stored in a DECIMAL(4,2) column: rounded to
\* hundredths, a half away from zero
hoursColumn(secs) == ToFixed(secs, 36)

\* handleSubmit(onSubmit): the resolver runs overtimeSchema first and calls
\* onSubmit only for valid data; onSubmit inserts the request and toasts
onSubmit(date, startTime, endTime, reason) ==
  IF ~overtimeSchema(startTime, endTime, reason)
  THEN UNCHANGED vars
  ELSE LET startDateTime == localInstant(date, startTime)
           endDateTime   == localInstant(date, endTime)
           hours         == calculateHours(startTime, endTime)
       IN  /\ Len(overtime_requests) < MaxRequests
           /\ overtime_requests' =
                Append(overtime_requests,
                       [ id          |-> Len(overtime_requests) + 1,
                         date        |-> date,
                         start_time  |-> startDateTime,
                         end_time    |-> endDateTime,
                         hours       |-> hoursColumn(hours),
                         status      |-> "pending",
                         approved_by |-> NoUser,
                         approved_at |-> NULL ])
           /\ toast' = "Success"
           /\ UNCHANGED <<tz, clock, attendance, hourly_rate,
                          daily_working_hours, todayAttendance, selectedDate,
                          attendanceRecords, writes, calc, otherTab, network,
                          actionLoading, requests, authState, authSession,
                     authPending>>

InitOvertime ==
  /\ tz \in TzOffsets
  /\ clock = localInstant(0, 0)
  /\ attendance = {}
  /\ hourly_rate = NULL
  /\ daily_working_hours = defaultDailyHours
  /\ todayAttendance = NoRow
  /\ toast = "none"
  /\ selectedDate = 0
  /\ attendanceRecords = {}
  /\ writes = 0
  /\ overtime_requests = <<>>
  /\ otherTab = NoRow
  /\ network = "up"
  /\ actionLoading = FALSE
  /\ requests = [a \in Admins |-> <<>>]
  /\ authState = SignedOutState
  /\ authSession = NoUser
  /\ authPending = {}
  /\ calc = CalcOff

NextOvertime ==
  \E date \in OvertimeDates, startTime \in OvertimeTimes,
     endTime \in OvertimeTimes, reason \in ReasonLengths :
    onSubmit(date, startTime, endTime, reason)

SpecOvertime == InitOvertime /\ [][NextOvertime]_vars

(***************************************************************************)
(* OvertimeApproval: two admins, each with the list of requests their page *)
(* loaded, decide on the requests the employee submits with the form's     *)
(* default times.                                                          *)
(***************************************************************************)
Decisions == { "approved", "rejected" }

\* fetchOvertimeRequests of admin a's page
fetchOvertimeRequests(a) ==
  /\ requests' = [requests EXCEPT ![a] = overtime_requests]
  /\ UNCHANGED <<tz, clock, attendance, hourly_rate, daily_working_hours,
                 todayAttendance, toast, selectedDate, attendanceRecords,
                 writes, calc, overtime_requests, otherTab, network,
                 actionLoading, authState, authSession,
                 authPending>>

\* handleApproval(requestId, status) from the Approve / Reject buttons, which
\* admin a's page renders for the k-th request of its list while that one is
\* pending; the update is `.eq('id', requestId)` and the list is fetched anew
handleApproval(a, k, status) ==
  /\ k \in DOMAIN requests[a]
  /\ requests[a][k].status = "pending"
  /\ LET requestId == requests[a][k].id
         after == [overtime_requests EXCEPT
                     ![requestId].status      = status,
                     ![requestId].approved_by = a,
                     ![requestId].approved_at = clock]
     IN  /\ overtime_requests' = after
         /\ requests' = [requests EXCEPT ![a] = after]
  /\ UNCHANGED <<tz, clock, attendance, hourly_rate, daily_working_hours,
                 todayAttendance, toast, selectedDate, attendanceRecords,
                 writes, calc, otherTab, network, actionLoading, authState, authSession,
                 authPending>>

InitApproval == InitOvertime

NextApproval ==
  \/ onSubmit(0, HMS(17, 0, 0), HMS(20, 0, 0), 10)
  \/ \E a \in Admins : fetchOvertimeRequests(a)
  \/ \E a \in Admins, k \in 1 .. MaxRequests + 1, status \in Decisions :
       handleApproval(a, k, status)

SpecApproval == InitApproval /\ [][NextApproval]_vars

(***************************************************************************)
(* useAuth.  authSession is the session the supabase client holds (the id  *)
(* of its user); authPending is the set of callbacks that have been        *)
(* scheduled and not run: the then of getSession(), the setTimeout timers  *)
(* that start fetchUserProfile, and the profile requests whose response    *)
(* has not arrived (data is what the server selected when the request was  *)
(* sent).  Equal callbacks are kept once: running one twice in a row       *)
(* leaves the state the first run left.                                    *)
(***************************************************************************)
employeeUid == "employee"

AuthUsers == { employeeUid, adminUid }

AuthSessions == { NoUser } \cup AuthUsers

\* the profiles row of user u
profileOf(u) ==
  [user_id |-> u, role |-> IF u = adminUid THEN "admin" ELSE "employee"]

\* select * from profiles where user_id = u, as the user of session s: the
\* policies show a user their own profile and an admin every profile
selectProfile(s, u) == IF s = u \/ s = adminUid THEN profileOf(u) ELSE NoProfile

\* isAdmin and isEmployee of the hook's return value
isAdmin ==
  IF authState.profile = NoProfile THEN FALSE
  ELSE authState.profile.role = "admin"

isEmployee ==
  IF authState.profile = NoProfile THEN FALSE
  ELSE authState.profile.role = "employee"

authTask(kind, userId, data) == [kind |-> kind, userId |-> userId, data |-> data]

\* `setTimeout(() => fetchUserProfile(session.user.id), 0)`
profileTimer(userId) == authTask("timer", userId, NoProfile)

\* the listener given to onAuthStateChange, called with the new session
\* when the user signs in or out (and with the present one at subscription
\* and at a token refresh)
onAuthStateChange(session) ==
  /\ authSession' = session
  /\ IF session # NoUser
     THEN /\ authState' = [authState EXCEPT !.session = session,
                                            !.user    = session]
          /\ authPending' = authPending \cup { profileTimer(session) }
     ELSE /\ authState' = [authState EXCEPT !.session = NoUser,
                                            !.user    = NoUser,
                                            !.profile = NoProfile,
                                            !.loading = FALSE]
          /\ UNCHANGED authPending
  /\ UNCHANGED <<tz, clock, attendance, hourly_rate, daily_working_hours,
                 todayAttendance, toast, selectedDate, attendanceRecords,
                 writes, calc, overtime_requests, otherTab, network,
                 actionLoading, requests>>

\* the then of supabase.auth.getSession(), run with the session t.userId
\* that getSession found
getSessionThen(t) ==
  /\ t \in authPending
  /\ t.kind = "getSession"
  /\ IF t.userId # NoUser
     THEN /\ authState' = [authState EXCEPT !.session = t.userId,
                                            !.user    = t.userId]
          /\ authPending' = (authPending \ {t}) \cup { profileTimer(t.userId) }
     ELSE /\ authState' = [authState EXCEPT !.session = NoUser,
                                            !.user    = NoUser,
                                            !.loading = FALSE]
          /\ authPending' = authPending \ {t}
  /\ UNCHANGED <<tz, clock, attendance, hourly_rate, daily_working_hours,
                 todayAttendance, toast, selectedDate, attendanceRecords,
                 writes, calc, overtime_requests, otherTab, network,
                 actionLoading, requests, authSession>>

\* a timer runs fetchUserProfile(userId) up to its await: the request is
\* sent with the session the client holds now
fetchUserProfileRequest(t) ==
  /\ t \in authPending
  /\ t.kind = "timer"
  /\ authPending' = (authPending \ {t})
       \cup { authTask("fetch", t.userId, selectProfile(authSession, t.userId)) }
  /\ UNCHANGED <<tz, clock, attendance, hourly_rate, daily_working_hours,
                 todayAttendance, toast, selectedDate, attendanceRecords,
                 writes, calc, overtime_requests, otherTab, network,
                 actionLoading, requests, authState, authSession>>

\* fetchUserProfile from its await on: the response sets the profile to its
\* data (null with an error toast when the request returned an error); a
\* request that threw resets loading only
fetchUserProfile(t) ==
  /\ t \in authPending
  /\ t.kind = "fetch"
  /\ authPending' = authPending \ {t}
  /\ authState' =
       IF network = "throws"
       THEN [authState EXCEPT !.loading = FALSE]
       ELSE [authState EXCEPT
               !.profile = IF network = "up" THEN t.data ELSE NoProfile,
               !.loading = FALSE]
  /\ toast' = IF network = "error" THEN "Error" ELSE toast
  /\ UNCHANGED <<tz, clock, attendance, hourly_rate, daily_working_hours,
                 todayAttendance, selectedDate, attendanceRecords, writes,
                 calc, overtime_requests, otherTab, network, actionLoading,
                 requests, authSession>>

\* the hook mounts in a browser that holds the session of one of the users
\* or none: getSession() has been called and its then is pending
InitAuth ==
  /\ tz = 0
  /\ clock = localInstant(0, 0)
  /\ attendance = {}
  /\ hourly_rate = NULL
  /\ daily_working_hours = defaultDailyHours
  /\ todayAttendance = NoRow
  /\ toast = "none"
  /\ selectedDate = 0
  /\ attendanceRecords = {}
  /\ writes = 0
  /\ overtime_requests = <<>>
  /\ otherTab = NoRow
  /\ network = "up"
  /\ actionLoading = FALSE
  /\ requests = [a \in Admins |-> <<>>]
  /\ authState = SignedOutState
  /\ authSession \in AuthSessions
  /\ authPending = { authTask("getSession", authSession, NoProfile) }
  /\ calc = CalcOff

NextAuth ==
  \/ \E session \in AuthSessions : onAuthStateChange(session)
  \/ \E t \in authPending : getSessionThen(t)
  \/ \E t \in authPending : fetchUserProfileRequest(t)
  \/ \E t \in authPending : fetchUserProfile(t)
  \/ \E n \in Networks : setNetwork(n)

SpecAuth == InitAuth /\ [][NextAuth]_vars

(***************************************************************************)
(* The row-level policies of the attendance table.  Every row of the model *)
(* is the employee's (user_id = employeeUid); colleagueUid is a second     *)
(* user without the admin role.  Policies of one command are permissive:   *)
(* a row is open to the command when one of them admits it.                *)
(***************************************************************************)
colleagueUid == "colleague"

NonAdmins == { employeeUid, colleagueUid }

\* public.get_user_role(user_uuid): the role of the user's profile
get_user_role(uid) == profileOf(uid).role

\* FOR UPDATE on attendance: "Users can update their own attendance" and
\* "Admins can manage all attendance"; neither has a WITH CHECK or names
\* columns, so an admitted row may be given any column values
attendanceUpdatePolicy(uid, user_id) ==
  \/ uid = user_id \/ get_user_role(uid) = "admin"
  \/ get_user_role(uid) = "admin"

PatchAmounts == { 0, 500 }

\* the user uid, signed in, sends through the API
\*   update attendance set pay_cut_approved = .., pay_cut_amount = ..
\*   where id = ..
\* the rows the policies do not admit are left out of the update without
\* an error; no page of the application is told
updateAttendance(uid, id, approved, amount) ==
  LET target == { r \in rowsWithId(id) :
                    attendanceUpdatePolicy(uid, employeeUid) }
      new    == [ theRow(target) EXCEPT !.pay_cut_approved = approved,
                                        !.pay_cut_amount   = amount ]
  IN  /\ attendance' = IF target = {} THEN attendance
                       ELSE (attendance \ target) \cup {new}
      /\ UNCHANGED <<tz, clock, hourly_rate, daily_working_hours,
                     todayAttendance, toast, selectedDate, attendanceRecords,
                     writes, calc, overtime_requests, otherTab, network,
                     actionLoading, requests, authState, authSession,
                     authPending>>

InitPolicy == InitTabs

NextPolicy ==
  \/ \E now \in TabNows : fetchTodayAttendance(now)
  \/ \E now \in TabNows : handleCheckIn(now)
  \/ \E now \in TabNows : handleCheckOut(now)
  \/ \E d \in Dates : setSelectedDate(d)
  \/ \E rec \in attendanceRecords : handleApprovePayCut(rec)
  \/ \E uid \in NonAdmins, r \in attendance, approved \in BOOLEAN,
        amount \in PatchAmounts :
       updateAttendance(uid, r.id, approved, amount)

SpecPolicy == InitPolicy /\ [][NextPolicy]_vars

(***************************************************************************)
(* The calculations on their own.  calc holds the late minutes L, the      *)
(* early-departure minutes E and the hourly rate of one working day, the   *)
(* computation applied to them last (stage) and its result (payCut); the   *)
(* check-in result is kept in checkIn.  The employee's day is priced by    *)
(* handleCheckIn's formula and then handleCheckOut's, the admin's by       *)
(* calculateHoursAndPayCut's, the database's by calculate_pay_cut.         *)
(***************************************************************************)
\* hourly rates priced: unset, 0, 10.00, 30.00, 35.00, 60.00 and -10.00
CalcRates == { NULL, 0, 1000, 3000, 3500, 6000, 0 - 1000 }

calcCheckIn ==
  /\ calc.stage = "input"
  /\ calc' = [calc EXCEPT !.stage   = "checkIn",
                          !.checkIn = checkInPayCut(calc.L, calc.rate),
                          !.payCut  = checkInPayCut(calc.L, calc.rate)]
  /\ UNCHANGED sysVars

\* the row check-in inserted is the row check-out prices against
calcCheckOut ==
  /\ calc.stage = "checkIn"
  /\ calc' = [calc EXCEPT !.stage  = "checkOut",
                          !.payCut = totalPayCut(calc.L, calc.checkIn, calc.E,
                                                 calc.rate)]
  /\ UNCHANGED sysVars

calcAdminEdit ==
  /\ calc.stage = "input"
  /\ calc' = [calc EXCEPT !.stage  = "adminEdit",
                          !.payCut = adminPayCut(calc.L, calc.E,
                                                 OrElse(calc.rate, NULL))]
  /\ UNCHANGED sysVars

calcSql ==
  /\ calc.stage = "input"
  /\ calc' = [calc EXCEPT !.stage  = "sql",
                          !.payCut = calculate_pay_cut(calc.L, calc.E, calc.rate)]
  /\ UNCHANGED sysVars

InitCalc ==
  /\ tz = 0
  /\ clock = localInstant(0, 0)
  /\ attendance = {}
  /\ hourly_rate = NULL
  /\ daily_working_hours = defaultDailyHours
  /\ todayAttendance = NoRow
  /\ toast = "none"
  /\ selectedDate = 0
  /\ attendanceRecords = {}
  /\ writes = 0
  /\ overtime_requests = <<>>
  /\ otherTab = NoRow
  /\ network = "up"
  /\ actionLoading = FALSE
  /\ requests = [a \in Admins |-> <<>>]
  /\ authState = SignedOutState
  /\ authSession = NoUser
  /\ authPending = {}
  /\ calc \in [ stage   : {"input"},
                 L       : 0 .. MaxMinutes,
                 E       : 0 .. MaxMinutes,
                 rate    : CalcRates,
                 checkIn : {NULL},
                 payCut  : {NULL} ]

NextCalc ==
  \/ calcCheckIn
  \/ calcCheckOut
  \/ calcAdminEdit
  \/ calcSql

SpecCalc == InitCalc /\ [][NextCalc]_vars

(***************************************************************************)
(* Properties of the calculations (SpecCalc).                              *)
(***************************************************************************)
\* amount (whole cents) is num/den cents rounded to 2 decimals: no whole
\* number of cents is nearer to num/den
IsNearestCent(amount, num, den) == 2 * Abs(den * amount - num) <= den

\* C1: for every L >= 0, E >= 0 and rate R > 0, the pay cut the employee flow
\* reaches (check-in rounds the cut for L, check-out adds the charge for E
\* against the bucket max(0, 60 - L) and rounds again) equals the single-pass
\* pay cut of the admin edit for (L, E, R).
C1_Composability ==
  (calc.stage = "checkOut" /\ calc.rate > 0)
    => calc.payCut = adminPayCut(calc.L, calc.E, calc.rate)

\* C2: for a positive rate R the admin edit's pay cut depends on L and E only
\* through T = L + E; it is (T/60)*R for T <= 60 and R + ((T-60)/60)*R*1.5
\* for T > 60, rounded to 2 decimals; with R = 60.00, (30, 20) gives 50.00 and
\* (40, 30) gives 75.00.
C2_SinglePass ==
  (calc.stage = "adminEdit" /\ calc.rate > 0) =>
    LET T == calc.L + calc.E
        R == calc.rate
    IN  /\ \A l \in 0 .. T :
             (l <= MaxMinutes /\ T - l <= MaxMinutes)
               => adminPayCut(l, T - l, R) = calc.payCut
        /\ IF T <= 60
           THEN IsNearestCent(calc.payCut, T * R, 60)
           ELSE IsNearestCent(calc.payCut, 120 * R + 3 * (T - 60) * R, 120)
        /\ (R = 6000 /\ calc.L = 30 /\ calc.E = 20) => calc.payCut = 5000
        /\ (R = 6000 /\ calc.L = 40 /\ calc.E = 30) => calc.payCut = 7500

\* the admin edit priced 40 late and 30 early minutes at 60.00 an hour: 75.00
C2_Witness ==
  /\ calc.stage = "adminEdit"
  /\ calc.L = 40 /\ calc.E = 30 /\ calc.rate = 6000
  /\ calc.payCut = 7500

\* C3: at check-out, with prior late minutes L, prior pay cut P, early
\* minutes E and positive rate R, remainingBucket = max(0, 60 - L), the
\* additional cut is (E/60)*R when E <= remainingBucket and
\* (remainingBucket/60)*R + ((E - remainingBucket)/60)*R*1.5 otherwise, and
\* the pay cut written is P + additionalCut rounded to 2 decimals.
C3_Incremental ==
  (calc.stage = "checkOut" /\ calc.rate > 0) =>
    LET P == calc.checkIn
        R == calc.rate
        E == calc.E
        remainingBucket == IF 60 - calc.L >= 0 THEN 60 - calc.L ELSE 0
    IN  IF E <= remainingBucket
        THEN IsNearestCent(calc.payCut, 60 * P + E * R, 60)
        ELSE IsNearestCent(calc.payCut,
                           120 * P + 2 * remainingBucket * R
                             + 3 * (E - remainingBucket) * R, 120)

\* check-out priced 30 early minutes after 40 late ones at 60.00 an hour:
\* 20 minutes of the bucket were left, 40.00 + 20.00 + 15.00
C3_Witness ==
  /\ calc.stage = "checkOut"
  /\ calc.L = 40 /\ calc.E = 30 /\ calc.rate = 6000
  /\ calc.checkIn = 4000
  /\ calc.payCut = 7500

\* C4: whenever the hourly rate is null, zero or negative, the pay cut
\* computed at check-in, by the admin edit and by calculate_pay_cut is 0, for
\* all late and early-departure minutes.
C4_ZeroRateShortCircuit ==
  (/\ calc.stage \in {"checkIn", "adminEdit", "sql"}
   /\ (calc.rate = NULL \/ calc.rate <= 0))
    => calc.payCut = 0

\* C6: the pay cut of a record is a function of (late_minutes +
\* early_departure_minutes, hourly_rate) only: whichever flow priced the day
\* and however the minutes split, it is the pay cut of the same total with
\* the same rate.
C6_FunctionOfTotal ==
  calc.stage \in {"checkIn", "checkOut", "adminEdit"} =>
    LET total == IF calc.stage = "checkIn" THEN calc.L ELSE calc.L + calc.E
    IN  \A l \in 0 .. total :
          (l <= MaxMinutes /\ total - l <= MaxMinutes)
            => calc.payCut = adminPayCut(l, total - l, OrElse(calc.rate, NULL))

\* C22: for all late >= 0, early >= 0 and every rate (null, zero, positive)
\* calculate_pay_cut(late, early, rate) returns the value of the client-side
\* single-pass computation: first 60 combined minutes at 1x the per-minute
\* rate, minutes beyond 60 at 1.5x, rounded to 2 decimals.
C22_SqlEqualsSinglePass ==
  (/\ calc.stage = "sql"
   /\ (calc.rate = NULL \/ calc.rate >= 0))
    => calc.payCut = adminPayCut(calc.L, calc.E, OrElse(calc.rate, NULL))

(***************************************************************************)
(* Properties of the system (Spec).                                        *)
(***************************************************************************)
\* the step is one of the writes of attendance data: a check-in, a check-out
\* or a submit of the admin dialog
attendanceWrite ==
  \/ \E now \in Nows : handleCheckIn(now)
  \/ \E now \in Nows : handleCheckOut(now)
  \/ \E rec \in attendanceRecords, i \in AdminCheckIns, o \in AdminCheckOuts :
       handleSubmitEdit(rec, i, o)
  \/ \E i \in AdminCheckIns, o \in AdminCheckOuts : handleSubmitAdd(i, o)

\* the step is a check-out that finds its row
checkOutWrite ==
  /\ \E now \in Nows : handleCheckOut(now)
  /\ rowsWithId(todayAttendance.id) # {}

\* the row a check-out is about to update, as the table holds it
storedRow == theRow(rowsWithId(todayAttendance.id))

\* C5: in every record written by check-in, check-out or admin edit,
\* pay_cut_amount is zero whenever the hourly rate the action read is absent
\* or zero, or late_minutes + early_departure_minutes is zero; also after a
\* check-out that reads an absent rate for a record charged at check-in.
C5_ZeroPayCut ==
  [][ attendanceWrite =>
        \A r \in attendance' \ attendance :
          (\/ ~Truthy(hourly_rate)
           \/ r.late_minutes + r.early_departure_minutes = 0)
            => r.pay_cut_amount = 0 ]_vars

\* C7: the late minutes and the pay cut a check-out prices against are the
\* ones the record holds when the check-out is written, whatever was written
\* to the record since the employee's page loaded it.
C7_PriorValuesAreStored ==
  [][ checkOutWrite =>
        /\ todayAttendance.late_minutes = storedRow.late_minutes
        /\ todayAttendance.pay_cut_amount = storedRow.pay_cut_amount ]_vars

\* C8: a check-out leaves is_late, late_minutes and check_in_time of the
\* record as they were, and for a non-negative hourly rate the pay cut it
\* writes is at least the pay cut of the check-in it extends (the row
\* todayAttendance the page got back from its check-in or loaded).
C8_CheckOutExtends ==
  [][ checkOutWrite =>
        LET new == todayAttendance'
        IN  /\ new \in attendance'
            /\ new.id = storedRow.id
            /\ new.is_late = storedRow.is_late
            /\ new.late_minutes = storedRow.late_minutes
            /\ new.check_in_time = storedRow.check_in_time
            /\ (hourly_rate # NULL /\ hourly_rate >= 0)
                 => new.pay_cut_amount >= todayAttendance.pay_cut_amount ]_vars

\* a checked-out record of a late check-in and an early check-out whose pay
\* cut exceeds the one charged for the lateness
C8_Witness ==
  /\ todayAttendance \in attendance
  /\ todayAttendance.check_out_time # NULL
  /\ todayAttendance.is_late
  /\ todayAttendance.early_departure_minutes > 0
  /\ hourly_rate > 0
  /\ todayAttendance.pay_cut_amount
       > checkInPayCut(todayAttendance.late_minutes, hourly_rate)

\* 09:00 of calendar date d: as an instant of the UTC day d, and as an
\* instant of day d in the browser's time zone
workStartUTC(d) == d * DaySecs + workStartHour * 3600

workStartLocal(d) == localInstant(d, workStartHour * 3600)

\* C9: a record whose check-in instant is at or before 09:00 of the record's
\* date has late_minutes = 0 and is_late = false, whether the employee's
\* check-in or the admin edit wrote it.  (09:00 in either reading of the
\* date: only records on time in both are required to be on time.)
C9_OnTimeNotLate ==
  \A r \in attendance :
    (/\ r.check_in_time <= workStartUTC(r.date)
     /\ r.check_in_time <= workStartLocal(r.date))
      => (r.late_minutes = 0 /\ ~r.is_late)

\* C10: a record whose check-in is exactly k whole minutes after 09:00 of the
\* record's date, k > 0, has late_minutes = k and is_late = true, whether the
\* employee's check-in or the admin edit wrote it.  (A record late in both
\* readings of the date must carry the k of one of them.)
C10_LateByK ==
  \A r \in attendance :
    LET sU == r.check_in_time - workStartUTC(r.date)
        sL == r.check_in_time - workStartLocal(r.date)
    IN  (sU > 0 /\ sL > 0 /\ sU % 60 = 0 /\ sL % 60 = 0)
          => /\ r.is_late
             /\ r.late_minutes \in { sU \div 60, sL \div 60 }

\* the policy's work end, start_hour + daily_hours, of calendar date d: as
\* an instant of the UTC day d and of day d in the browser's time zone
workEndUTC(d) ==
  d * DaySecs + workStartHour * 3600 + daily_working_hours * 36

workEndLocal(d) ==
  localInstant(d, workStartHour * 3600 + daily_working_hours * 36)

\* C11: a record written with a check-out at or after the policy's work end
\* (09:00 + daily_hours of the record's date) has early_departure_minutes = 0,
\* whether the employee's check-out or the admin edit wrote it.  (Work end in
\* either reading of the date: only check-outs after both are constrained.)
C11_NotEarlyAfterWorkEnd ==
  [][ attendanceWrite =>
        \A r \in attendance' \ attendance :
          (/\ r.check_out_time # NULL
           /\ r.check_out_time >= workEndUTC(r.date)
           /\ r.check_out_time >= workEndLocal(r.date))
            => r.early_departure_minutes = 0 ]_vars

\* C12: a record written with a check-out exactly k whole minutes before the
\* policy's work end (09:00 + daily_hours of the record's date), k > 0, has
\* early_departure_minutes = k, in the employee's check-out and in the admin
\* edit alike.  (A check-out early in both readings of the date must carry
\* the k of one of them.)
C12_EarlyByK ==
  [][ attendanceWrite =>
        \A r \in attendance' \ attendance :
          r.check_out_time # NULL =>
            LET sU == workEndUTC(r.date) - r.check_out_time
                sL == workEndLocal(r.date) - r.check_out_time
            IN  (sU > 0 /\ sL > 0 /\ sU % 60 = 0 /\ sL % 60 = 0)
                  => r.early_departure_minutes \in { sU \div 60, sL \div 60 }
    ]_vars

\* C13: the work end a check-out measures against is 09:00 of the day of the
\* check-out plus daily_hours converted to minutes (17:30 for 8.5 hours), so
\* a check-out between the whole hour and that instant is an early departure.
C13_FractionalWorkEnd ==
  [][ checkOutWrite =>
        LET now     == todayAttendance'.check_out_time
            minutes == (daily_working_hours * 60) \div 100
            workEnd == localInstant(formatDate(now),
                                    workStartHour * 3600 + minutes * 60)
        IN  todayAttendance'.early_departure_minutes
              = (IF now < workEnd THEN MathRound(workEnd - now, 60) ELSE 0)
    ]_vars

\* C14: a record has a total_hours if and only if it has a check-out time,
\* and then total_hours is (check_out - check_in) in hours rounded to 2
\* decimals; a record of a check-in alone or of an admin edit with an empty
\* check-out has none.
C14_TotalHours ==
  \A r \in attendance :
    /\ (r.total_hours # NULL) <=> (r.check_out_time # NULL)
    /\ r.check_out_time # NULL
         => IsNearestCent(r.total_hours, r.check_out_time - r.check_in_time, 36)

\* C20: every record written by check-in, check-out or admin edit has
\* late_minutes >= 0, early_departure_minutes >= 0 and pay_cut_amount >= 0,
\* for all timestamps and every hourly rate a profile can hold.
C20_NonNegative ==
  \A r \in attendance :
    /\ r.late_minutes >= 0
    /\ r.early_departure_minutes >= 0
    /\ r.pay_cut_amount >= 0

\* C16: every admin create and every admin edit of an attendance record
\* writes pay_cut_approved = false, also the edit of a record whose pay cut
\* had been approved.
C16_AdminResetsApproval ==
  [][ /\ (\E i \in AdminCheckIns, o \in AdminCheckOuts : handleSubmitAdd(i, o))
         => \A r \in attendance' \ attendance : ~r.pay_cut_approved
      /\ \A rec \in attendanceRecords :
           (/\ \E i \in AdminCheckIns, o \in AdminCheckOuts :
                 handleSubmitEdit(rec, i, o)
            /\ attendance' # attendance \/ rowsWithId(rec.id) # {})
             => \A r \in attendance' : r.id = rec.id => ~r.pay_cut_approved
    ]_vars

\* a record whose pay cut the admin approved and then edited: the approver is
\* still recorded, the approval is gone
C16_Witness ==
  \E r \in attendance :
    /\ r.pay_cut_approved_by = adminUid
    /\ ~r.pay_cut_approved

\* C24: once a record's pay cut has been approved, its pay_cut_amount does
\* not change while the record remains flagged approved: no action (an
\* employee check-out after the approval in particular) changes the amount
\* without resetting pay_cut_approved to false.
C24_ApprovedAmountFrozen ==
  [][ \A r \in attendance, s \in attendance' :
        (r.id = s.id /\ r.pay_cut_approved /\ s.pay_cut_approved)
          => s.pay_cut_amount = r.pay_cut_amount ]_vars

\* C25: in every reachable attendance record pay_cut_approved is true if and
\* only if pay_cut_approved_by and pay_cut_approved_at are set, after any
\* sequence of approve-pay-cut and admin-edit actions.
C25_ApprovalFieldsAgree ==
  \A r \in attendance :
    r.pay_cut_approved
      <=> (r.pay_cut_approved_by # NoUser /\ r.pay_cut_approved_at # NULL)

(***************************************************************************)
(* Properties of the working day (SpecDay).                                *)
(***************************************************************************)
\* the time of day of instant t, in seconds: on the browser's clock and on
\* the UTC clock (the admin dialog's times are stored as typed, zone-less)
timeOfDayLocal(t) == t + tz * 60 - formatDate(t) * DaySecs

timeOfDayUTC(t) == t - isoDate(t) * DaySecs

C15_NegativeHoursPersisted ==
  [][ \A i \in DayCheckIns, o \in DayCheckOuts \ {NULL} :
        o < i =>
          /\ (handleSubmitAdd(i, o) /\ rowsOn(selectedDate) = {})
               => \E r \in attendance' \ attendance :
                    /\ r.check_in_time = storeLocalString(selectedDate, i)
                    /\ r.check_out_time = storeLocalString(selectedDate, o)
                    /\ r.total_hours < 0
                    /\ IsNearestCent(r.total_hours, o - i, 36)
          /\ \A rec \in attendanceRecords :
               LET d == formatDate(parseDateOnly(rec.date))
               IN  (/\ handleSubmitEdit(rec, i, o)
                    /\ rowsWithId(rec.id) # {}
                    /\ \A x \in rowsOn(d) : x.id = rec.id)
                     => \E r \in attendance' :
                          /\ r.id = rec.id
                          /\ r.check_in_time = storeLocalString(d, i)
                          /\ r.check_out_time = storeLocalString(d, o)
                          /\ r.total_hours < 0
                          /\ IsNearestCent(r.total_hours, o - i, 36)
    ]_vars

\* a record whose check-out precedes its check-in, with negative hours
C15_Witness ==
  \E r \in attendance :
    /\ r.check_out_time # NULL
    /\ r.check_out_time < r.check_in_time
    /\ r.total_hours # NULL
    /\ r.total_hours < 0

\* C17: the (is_late, late_minutes, pay_cut_amount) a check-in persists are
\* those the admin dialog computes for the same check-in time of day and the
\* same hourly rate with an empty check-out time.
C17_CheckInIsSinglePass ==
  [][ ((\E now \in DayNows : handleCheckIn(now)) /\ attendance' # attendance)
        => LET r     == todayAttendance'
               wall  == r.check_in_time + tz * 60
                          - formatDate(r.check_in_time) * DaySecs
               admin == calculateHoursAndPayCut(wall, NULL,
                                                OrElse(hourly_rate, NULL))
           IN  /\ r \in attendance'
               /\ r.is_late = admin.isLate
               /\ r.late_minutes = admin.lateMinutes
               /\ r.pay_cut_amount = admin.payCut
               /\ admin.earlyDepartureMinutes = 0
    ]_vars

\* a check-in 90 minutes late, charged 30.00 + 30 minutes at 45.00 an hour
C17_Witness ==
  /\ todayAttendance \in attendance
  /\ todayAttendance.check_out_time = NULL
  /\ todayAttendance.late_minutes = 90
  /\ hourly_rate = 3000
  /\ todayAttendance.pay_cut_amount = 5250

\* the page holds a record of a check-in at 09:15 and a check-out at 16:50
\* of local day 0
roundTripDone ==
  IF todayAttendance = NoRow THEN FALSE
  ELSE /\ todayAttendance.check_in_time = localInstant(0, HMS(9, 15, 0))
       /\ todayAttendance.check_out_time = localInstant(0, HMS(16, 50, 0))

\* C18: with work start 09:00, 8 daily hours and rate 30.00, a check-in at
\* 09:15 followed by a check-out at 16:50 (the check-in being the only write
\* to the day's attendance) leaves a record with late_minutes = 15,
\* early_departure_minutes = 10, pay_cut_amount = 12.50, total_hours = 7.58.
C18_RoundTrip ==
  (/\ roundTripDone
   /\ writes = 1
   /\ hourly_rate = 3000
   /\ daily_working_hours = 800)
    => /\ todayAttendance \in attendance
       /\ todayAttendance.is_late
       /\ todayAttendance.late_minutes = 15
       /\ todayAttendance.early_departure_minutes = 10
       /\ todayAttendance.pay_cut_amount = 1250
       /\ todayAttendance.total_hours = 758

\* the round trip has happened at 30.00 an hour
C18_Witness ==
  /\ roundTripDone
  /\ writes = 1
  /\ hourly_rate = 3000
  /\ todayAttendance.pay_cut_amount = 1250

(***************************************************************************)
(* Properties of the overtime form (SpecOvertime).                         *)
(***************************************************************************)
\* C19 as stated: every overtime request created through the form has
\* hours > 0 and hours equal to the duration between its stored start_time
\* and end_time.
C19_HoursEqualDuration ==
  \A k \in DOMAIN overtime_requests :
    LET r == overtime_requests[k]
    IN  /\ r.hours > 0
        /\ r.hours * 36 = r.end_time - r.start_time

\* C19: the form submits only when the end time is strictly after the start
\* time, so every overtime request created through the form ends after it
\* starts and has hours > 0; its hours are the plain duration between its
\* stored start_time and end_time (no tiering) rounded to 2 decimals, the
\* precision of the hours column (17:00 to 20:00 gives 3.00).
C19_HoursRoundedDuration ==
  \A k \in DOMAIN overtime_requests :
    LET r == overtime_requests[k]
    IN  /\ r.end_time > r.start_time
        /\ r.hours > 0
        /\ IsNearestCent(r.hours, r.end_time - r.start_time, 36)
        /\ (r.end_time - r.start_time = 3 * 3600) => r.hours = 300

\* a request from 17:00 to 20:00 with 3.00 hours and one from 17:00 to
\* 17:10, whose 1/6 hour is stored as 0.17
C19_Witness ==
  /\ \E k \in DOMAIN overtime_requests :
       /\ overtime_requests[k].start_time
            = localInstant(overtime_requests[k].date, HMS(17, 0, 0))
       /\ overtime_requests[k].end_time
            = localInstant(overtime_requests[k].date, HMS(20, 0, 0))
       /\ overtime_requests[k].hours = 300
  /\ \E k \in DOMAIN overtime_requests :
       /\ overtime_requests[k].end_time - overtime_requests[k].start_time = 600
       /\ overtime_requests[k].hours = 17

(***************************************************************************)
(* Properties of the two tabs (SpecTabs).                                  *)
(***************************************************************************)
\* C23: at most one attendance record exists per (user, date) in every
\* reachable state; a check-in or an admin create attempted for a date that
\* already has a record (two check-ins from two browser tabs, say) fails:
\* the existing records are unchanged, and the failing page's
\* todayAttendance is unchanged with a 'Check-in Failed' toast.
C23_OneRecordPerDate ==
  [][ /\ \A r1 \in attendance', r2 \in attendance' :
           r1.date = r2.date => r1 = r2
      /\ \A now \in TabNows :
           (handleCheckIn(now) /\ rowsOn(isoDate(now)) # {})
             => /\ attendance' = attendance
                /\ todayAttendance' = todayAttendance
                /\ toast' = "Check-in Failed"
      /\ \A i \in AdminCheckIns, o \in AdminCheckOuts :
           (handleSubmitAdd(i, o) /\ rowsOn(selectedDate) # {})
             => attendance' = attendance
    ]_vars

\* the second tab's check-in has failed on the record of the first tab's
C23_Witness ==
  /\ toast = "Check-in Failed"
  /\ network = "up"
  /\ todayAttendance = NoRow
  /\ otherTab \in attendance

\* C26: an employee check-out is applied at most once per record: once
\* check_out_time is set, a further employee check-out for that record (from
\* a second tab still showing the 'Checked In' state, say) does not
\* overwrite check_out_time, total_hours, early_departure_minutes or
\* pay_cut_amount.
C26_CheckOutOnce ==
  [][ (\E now \in TabNows : handleCheckOut(now))
        => \A r \in rowsWithId(todayAttendance.id) :
             r.check_out_time # NULL
               => \E s \in attendance' :
                    /\ s.id = r.id
                    /\ s.check_out_time = r.check_out_time
                    /\ s.total_hours = r.total_hours
                    /\ s.early_departure_minutes = r.early_departure_minutes
                    /\ s.pay_cut_amount = r.pay_cut_amount
    ]_vars

\* C30: every check-in or check-out attempt ends with actionLoading =
\* false, whether the write succeeds, returns an error or throws; on an
\* error the page's todayAttendance is left exactly as it was before the
\* attempt, and on success it is replaced by the row returned from the write.
C30_AttemptOutcome ==
  [][ \A now \in TabNows :
        (handleCheckIn(now) \/ handleCheckOut(now))
          => /\ actionLoading' = FALSE
             /\ network # "up" => toast' # "Success"
             /\ toast' # "Success"
                  => /\ todayAttendance' = todayAttendance
                     /\ attendance' = attendance
             /\ toast' = "Success"
                  => /\ todayAttendance' \in attendance'
                     /\ todayAttendance'.id \notin { r.id : r \in attendance }
                          \/ todayAttendance'.check_out_time = clock'
    ]_vars

\* a check-out whose request threw: the page still holds the record without
\* a check-out and waits for nothing
C30_Witness ==
  /\ toast = "Check-out Failed"
  /\ network = "throws"
  /\ actionLoading = FALSE
  /\ todayAttendance \in attendance
  /\ todayAttendance.check_out_time = NULL

(***************************************************************************)
(* Properties of the overtime approval (SpecApproval).                     *)
(***************************************************************************)
\* C27: an overtime request's decision is final: once its status is
\* 'approved' or 'rejected' no later approval action changes status,
\* approved_by or approved_at; of two admins acting on the same pending
\* request from their own loaded lists, the one who acted first decides.
C27_DecisionFinal ==
  [][ \A k \in DOMAIN overtime_requests :
        overtime_requests[k].status \in Decisions
          => /\ overtime_requests'[k].status = overtime_requests[k].status
             /\ overtime_requests'[k].approved_by
                  = overtime_requests[k].approved_by
             /\ overtime_requests'[k].approved_at
                  = overtime_requests[k].approved_at
    ]_vars

(***************************************************************************)
(* Properties of useAuth (SpecAuth).                                       *)
(***************************************************************************)
\* C28: in the useAuth state, whenever user is null the profile is null, so
\* isAdmin and isEmployee are false: after a sign-out no profile fetch
\* started for the earlier session completes later and leaves a non-null
\* profile alongside a null user.
C28_NoProfileWithoutUser ==
  authState.user = NoUser
    => /\ authState.profile = NoProfile
       /\ ~isAdmin
       /\ ~isEmployee

(***************************************************************************)
(* Properties of the attendance policies (SpecPolicy).                     *)
(***************************************************************************)
\* a step that makes the pay cut of an existing row approved or changes its
\* amount
payCutTouched ==
  \E r \in attendance, s \in attendance' :
    /\ s.id = r.id
    /\ \/ s.pay_cut_approved /\ ~r.pay_cut_approved
       \/ s.pay_cut_amount # r.pay_cut_amount

\* C29: under the row-level policies on attendance, while users without the
\* admin role act (the employee's page and direct updates through the API),
\* pay_cut_approved becomes true only by the admin's approval and
\* pay_cut_amount changes only by the check-out computation.
C29_OnlyAdminApproves ==
  [][ payCutTouched =>
        \/ \E now \in TabNows : handleCheckOut(now)
        \/ \E rec \in attendanceRecords : handleApprovePayCut(rec) ]_vars

=============================================================================
